---- MODULE Spec2Model ----
(***************************************************************************)
(* Configuration resolution of the catalyst-elements build process.        *)
(*                                                                         *)
(* The repository holds three generations of the resolver:                 *)
(*   "getConfig"   src/src/index.ts   28-98   (async, returns a fresh      *)
(*                                             merged object)              *)
(*   "setConfigTS" src/src/index.ts  241-311  (async, mutates the module   *)
(*                                             level userConfig)           *)
(*   "setConfigJS" src/src/tasks/lint.js 149-202 (synchronous, mutates the *)
(*                                             module level userConfig)    *)
(* and the task tables that consume the configuration.                     *)
(*                                                                         *)
(* JavaScript values are records [t, v]: t is the typeof-like tag and v    *)
(* the payload as a sequence of one-character strings.  A missing key      *)
(* reads as Undef, as in JavaScript.                                       *)
(***************************************************************************)
EXTENDS Integers, Sequences, FiniteSets, TLC

VARIABLES version, userConfig, calls, resolution, ranTask, analysis,
          subTasks, promises

vars ==
  <<version, userConfig, calls, resolution, ranTask, analysis, subTasks,
    promises>>

-----------------------------------------------------------------------------
(* Bounds of the model. *)

\* Longest manifest name enumerated character by character.
MaxNameLen == 3

-----------------------------------------------------------------------------
(* JavaScript values. *)

Undef == [t |-> "undefined", v |-> <<>>]
Null == [t |-> "null", v |-> <<>>]
Str(s) == [t |-> "string", v |-> s]
Bool(b) == [t |-> "boolean", v |-> IF b THEN <<"t">> ELSE <<"f">>]
Num42 == [t |-> "number", v |-> <<"4", "2">>]

\* x == null (loose equality): true of null and of undefined.
IsNullish(x) == x.t \in {"null", "undefined"}

\* Truthiness, as used by ! and ||.
Truthy(x) ==
  CASE x.t = "boolean" -> x.v = <<"t">>
    [] x.t = "string" -> x.v # <<>>
    [] x.t = "number" -> TRUE
    [] OTHER -> FALSE

\* ${x} inside a template literal.
ToTemplate(x) ==
  CASE x.t = "undefined" -> <<"u", "n", "d", "e", "f", "i", "n", "e", "d">>
    [] x.t = "null" -> <<"n", "u", "l", "l">>
    [] x.t = "boolean" -> IF x.v = <<"t">> THEN <<"t", "r", "u", "e">>
                                           ELSE <<"f", "a", "l", "s", "e">>
    [] OTHER -> x.v

\* String.prototype.lastIndexOf(ch): zero-based, -1 when ch does not occur.
LastIndexOf(s, ch) ==
  LET hits == {i \in 1..Len(s) : s[i] = ch}
  IN IF hits = {} THEN -1
     ELSE (CHOOSE i \in hits : \A j \in hits : j <= i) - 1

\* String.prototype.substring(from, to): negative arguments count as 0,
\* arguments beyond the length as the length, and the two are swapped when
\* from > to.
Clamp(n, len) == IF n < 0 THEN 0 ELSE IF n > len THEN len ELSE n
Substring(s, from, to) ==
  LET a == Clamp(from, Len(s))
      b == Clamp(to, Len(s))
      lo == IF a <= b THEN a ELSE b
      hi == IF a <= b THEN b ELSE a
  IN SubSeq(s, lo + 1, hi)

\* The own property names of Object.prototype.
ObjectPrototypeKeys ==
  { <<"c", "o", "n", "s", "t", "r", "u", "c", "t", "o", "r">>,
    <<"t", "o", "S", "t", "r", "i", "n", "g">>,
    <<"v", "a", "l", "u", "e", "O", "f">>,
    <<"h", "a", "s", "O", "w", "n", "P", "r", "o", "p", "e", "r", "t", "y">>,
    <<"i", "s", "P", "r", "o", "t", "o", "t", "y", "p", "e", "O", "f">>,
    <<"t", "o", "L", "o", "c", "a", "l", "e", "S", "t", "r", "i", "n", "g">>,
    <<"_", "_", "p", "r", "o", "t", "o", "_", "_">>,
    <<"p", "r", "o", "p", "e", "r", "t", "y", "I", "s", "E", "n", "u", "m",
      "e", "r", "a", "b", "l", "e">>,
    <<"_", "_", "d", "e", "f", "i", "n", "e", "G", "e", "t", "t", "e", "r",
      "_", "_">>,
    <<"_", "_", "d", "e", "f", "i", "n", "e", "S", "e", "t", "t", "e", "r",
      "_", "_">>,
    <<"_", "_", "l", "o", "o", "k", "u", "p", "G", "e", "t", "t", "e", "r",
      "_", "_">>,
    <<"_", "_", "l", "o", "o", "k", "u", "p", "S", "e", "t", "t", "e", "r",
      "_", "_">> }

\* Object.prototype.hasOwnProperty(x): called on Object.prototype itself, so
\* it asks whether Object.prototype owns a property whose key is String(x).
HasOwnPropertyOnObjectPrototype(x) == ToTemplate(x) \in ObjectPrototypeKeys


-----------------------------------------------------------------------------
(* Strings of the program. *)

NodeModules == <<"n", "o", "d", "e", "_", "m", "o", "d", "u", "l", "e", "s">>
ExtMjs == <<".", "m", "j", "s">>
ExtMinJs == <<".", "m", "i", "n", ".", "j", "s">>
ExtJs == <<".", "j", "s">>
Slash == "/"

\* A slip in the template: the '/' is appended whether or not there is a
\* scope.
ComponentPathTemplateAlwaysSlash(root, noScope, scope) ==
  ToTemplate(root) \o <<Slash>> \o ToTemplate(scope)

\* The component path template of all three resolvers:
\* `${root}${noScope ? '' : `/${scope}`}`.
ComponentPathTemplate(root, noScope, scope) ==
  ToTemplate(root) \o (IF noScope THEN <<>> ELSE <<Slash>> \o ToTemplate(scope))

\* Slips in the scope: indexOf for lastIndexOf, and a substring that drops
\* the first character.
IndexOf(s, ch) ==
  LET hits == {i \in 1..Len(s) : s[i] = ch}
  IN IF hits = {} THEN -1
     ELSE (CHOOSE i \in hits : \A j \in hits : i <= j) - 1
ScopeOfNameFirstSlash(name) == Substring(name, 0, IndexOf(name, Slash))
ScopeOfNameWithoutFirstChar(name) ==
  Substring(name, 1, IF LastIndexOf(name, Slash) < 1 THEN 1
                     ELSE LastIndexOf(name, Slash))

\* name.substring(0, name.lastIndexOf('/'))
ScopeOfName(name) == Substring(name, 0, LastIndexOf(name, Slash))

-----------------------------------------------------------------------------
(* Configuration objects.  Every leaf is a JavaScript value; a key that is *)
(* missing from an object holds Undef.  `extra` stands for any top-level   *)
(* key the default configuration does not have.                            *)

MkConfig(root, scope, compPath, mCreate, mExt, sCreate, sExt, pkgName, extra) ==
  [ nodeModulesPath |-> root,
    componenet |-> [scope |-> scope, nodeModulesPath |-> compPath],
    build |-> [ module |-> [create |-> mCreate, extension |-> mExt],
                script |-> [create |-> sCreate, extension |-> sExt] ],
    package |-> [name |-> pkgName],
    extra |-> extra ]

\* {} : no key at all.
EmptyConfig ==
  MkConfig(Undef, Undef, Undef, Undef, Undef, Undef, Undef, Undef, Undef)

\* The built-in defaults (config.ts / default-config.ts, not part of the
\* sources at hand): both targets are built, with different extensions, the
\* install directory is node_modules, and the component group is unset.
defaultConfig ==
  MkConfig(Str(NodeModules), Undef, Undef, Bool(TRUE), Str(ExtMjs),
           Bool(TRUE), Str(ExtMinJs), Undef, Undef)

\* deepmerge on one leaf: a key the source has replaces the target's.
MergeLeaf(x, y) == IF y = Undef THEN x ELSE y

\* deepmerge(x, y) over the configuration shape: nested groups are merged
\* key by key, a leaf of y replaces the leaf of x.
deepMerge(x, y) ==
  MkConfig(MergeLeaf(x.nodeModulesPath, y.nodeModulesPath),
           MergeLeaf(x.componenet.scope, y.componenet.scope),
           MergeLeaf(x.componenet.nodeModulesPath, y.componenet.nodeModulesPath),
           MergeLeaf(x.build.module.create, y.build.module.create),
           MergeLeaf(x.build.module.extension, y.build.module.extension),
           MergeLeaf(x.build.script.create, y.build.script.create),
           MergeLeaf(x.build.script.extension, y.build.script.extension),
           MergeLeaf(x.package.name, y.package.name),
           MergeLeaf(x.extra, y.extra))

-----------------------------------------------------------------------------
(* Outcomes of a resolver call. *)

Ok == "ok"
\* 'package.json does not contain a name property as a string'
ErrName == "manifest missing name"
\* 'Invalid config - Both building of the module and the script cannot be
\* turned off.'
ErrNoTarget == "no build target enabled"
\* 'Invalid config - The module and the script cannot both have the same
\* file extension.'
ErrExtension == "extension collision"
\* A TypeError raised by the runtime (substring of a non-string).
ErrType == "TypeError"

Outcome(o, c) == [outcome |-> o, config |-> c]

\* A slip in the validation: the extensions are not compared.
ValidateWithoutExtensionCheck(config) ==
  IF ~(Truthy(config.build.script.create) \/ Truthy(config.build.module.create))
  THEN ErrNoTarget
  ELSE Ok

\* The two checks on the merged configuration, in the order of the code.
Validate(config) ==
  IF ~(Truthy(config.build.script.create) \/ Truthy(config.build.module.create))
  THEN ErrNoTarget
  ELSE IF config.build.script.extension = config.build.module.extension
  THEN ErrExtension
  ELSE Ok

-----------------------------------------------------------------------------
(* getConfig(options) of src/src/index.ts, 28-98.  `options` is            *)
(* [given, value]: given = FALSE is the call without an argument.          *)

\* Lines 42-45: the test that guards the name.
NameCheckFails(projectPackage) ==
  \/ HasOwnPropertyOnObjectPrototype(projectPackage.name)
  \/ projectPackage.name.t # "string"

\* A slip in the root path: the caller's nodeModulesPath is not looked at.
ProjectNodeModulesPathDefaultOnly(options) == defaultConfig.nodeModulesPath

\* Lines 58-61.
ProjectNodeModulesPath(options) ==
  IF options.given /\ options.value.nodeModulesPath # Undef
  THEN options.value.nodeModulesPath
  ELSE defaultConfig.nodeModulesPath

\* Lines 69-75.
AutoLoadedConfig(projectPackage, options) ==
  LET packageScope == ScopeOfName(projectPackage.name.v)
      componentNodeModulesPath ==
        ComponentPathTemplate(ProjectNodeModulesPath(options),
                              packageScope = <<>>, Str(packageScope))
  IN MkConfig(Undef,
              IF packageScope = <<>> THEN Null ELSE Str(packageScope),
              Str(componentNodeModulesPath),
              Undef, Undef, Undef, Undef, projectPackage.name, Undef)

getConfig(options, projectPackage) ==
  IF NameCheckFails(projectPackage)
  THEN Outcome(ErrName, EmptyConfig)
  ELSE LET auto == AutoLoadedConfig(projectPackage, options)
           config == IF options.given
                     THEN deepMerge(deepMerge(defaultConfig, auto), options.value)
                     ELSE deepMerge(defaultConfig, auto)
       IN IF Validate(config) = Ok
          THEN Outcome(Ok, config)
          ELSE Outcome(Validate(config), EmptyConfig)

-----------------------------------------------------------------------------
(* setConfig(packagePath, config) of src/src/index.ts, 252-311.  It works  *)
(* on the module-level userConfig and suspends once, at the manifest read. *)
(* This generation names the `create` flag of a build target `build`; the  *)
(* model keeps one flag per target under the name `create`.                *)

\* Line 242: userConfig = deepMerge(defaultConfig, {}).
InitialUserConfig == deepMerge(defaultConfig, EmptyConfig)

\* Lines 257-266 for one top-level key: the key takes the new value, and is
\* deleted when the new configuration holds null or nothing under it.
CopyOrDelete(new) == IF IsNullish(new) THEN Undef ELSE new

\* A slip in the merge: the component group of userConfig is kept from the
\* call before (as when the merged object shares it with the defaults).
SetConfigMergeKeepingComponent(u, config) ==
  LET newConfig == deepMerge(defaultConfig, config)
  IN MkConfig(CopyOrDelete(newConfig.nodeModulesPath),
              MergeLeaf(u.componenet.scope, newConfig.componenet.scope),
              MergeLeaf(u.componenet.nodeModulesPath,
                        newConfig.componenet.nodeModulesPath),
              newConfig.build.module.create,
              newConfig.build.module.extension,
              newConfig.build.script.create,
              newConfig.build.script.extension,
              newConfig.package.name,
              CopyOrDelete(newConfig.extra))

\* Lines 254-266: everything setConfig does before the manifest read.  The
\* groups componenet and build are objects in every merged configuration;
\* package is one only when the caller's config has it.
SetConfigMerge(u, config) ==
  LET newConfig == deepMerge(defaultConfig, config)
  IN MkConfig(CopyOrDelete(newConfig.nodeModulesPath),
              newConfig.componenet.scope,
              newConfig.componenet.nodeModulesPath,
              newConfig.build.module.create,
              newConfig.build.module.extension,
              newConfig.build.script.create,
              newConfig.build.script.extension,
              newConfig.package.name,
              CopyOrDelete(newConfig.extra))

\* Line 269: userConfig.package = JSON.parse(...).
WithPackage(u, projectPackage) == [u EXCEPT !.package = projectPackage]

\* Lines 274-285; reached only with a string name.
WithScopeIfUnset(u) ==
  IF IsNullish(u.componenet.scope)
  THEN LET scope == ScopeOfName(u.package.name.v)
       IN [u EXCEPT !.componenet.scope =
                      IF scope = <<>> THEN Null ELSE Str(scope)]
  ELSE u

\* Lines 287-294.
WithComponentPathIfUnset(u) ==
  IF IsNullish(u.componenet.nodeModulesPath)
  THEN [u EXCEPT !.componenet.nodeModulesPath =
          Str(ComponentPathTemplate(u.nodeModulesPath,
                                    IsNullish(u.componenet.scope),
                                    u.componenet.scope))]
  ELSE u

\* Lines 296-307.
ValidateUserConfig(u) ==
  IF ~Truthy(u.build.script.create) /\ ~Truthy(u.build.module.create)
  THEN ErrNoTarget
  ELSE IF u.build.script.extension = u.build.module.extension
  THEN ErrExtension
  ELSE Ok

\* Lines 269-310: everything setConfig does once the manifest is read.  The
\* result is [outcome, config]: config is userConfig as the call leaves it,
\* whether it returns it or throws.
SetConfigFinish(u, projectPackage) ==
  LET u1 == WithPackage(u, projectPackage)
  IN IF IsNullish(u1.componenet.scope) /\ u1.package.name.t # "string"
     THEN Outcome(ErrType, u1)
     ELSE LET u3 == WithComponentPathIfUnset(WithScopeIfUnset(u1))
          IN Outcome(ValidateUserConfig(u3), u3)

\* The whole call, run without another call in between.
setConfig(u, config, projectPackage) ==
  SetConfigFinish(SetConfigMerge(u, config), projectPackage)

-----------------------------------------------------------------------------
(* setConfig(packagePath, config) of src/src/tasks/lint.js, 160-202:       *)
(* synchronous, on the module-level userConfig, without validation.        *)

\* Lines 166-168 for one top-level key: only the keys newConfig has are
\* assigned; the loop of 171-175 deletes from newConfig, so that a key of
\* userConfig that newConfig lacks stays as it was.
CopyKey(old, new) == IF new = Undef THEN old ELSE new

\* Lines 163-175: userConfig after the two loops.
SetConfigJSMerge(u, config) ==
  LET newConfig == deepMerge(defaultConfig, config)
  IN MkConfig(CopyKey(u.nodeModulesPath, newConfig.nodeModulesPath),
              newConfig.componenet.scope,
              newConfig.componenet.nodeModulesPath,
              newConfig.build.module.create,
              newConfig.build.module.extension,
              newConfig.build.script.create,
              newConfig.build.script.extension,
              IF newConfig.package.name = Undef
                THEN u.package.name ELSE newConfig.package.name,
              CopyKey(u.extra, newConfig.extra))

\* Lines 171-175 on newConfig.nodeModulesPath, which line 191 reads: a null
\* entry is deleted from newConfig.
NewConfigNodeModulesPath(config) ==
  CopyOrDelete(deepMerge(defaultConfig, config).nodeModulesPath)

\* Lines 181-195: scope and component path are always derived.
setConfigJS(u, config, projectPackage) ==
  LET u1 == WithPackage(SetConfigJSMerge(u, config), projectPackage)
  IN IF u1.package.name.t # "string"
     THEN Outcome(ErrType, u1)
     ELSE LET scope == ScopeOfName(u1.package.name.v)
              u2 == [u1 EXCEPT !.componenet.scope =
                                 IF scope = <<>> THEN Null ELSE Str(scope)]
              u3 == [u2 EXCEPT !.componenet.nodeModulesPath =
                       Str(ComponentPathTemplate(NewConfigNodeModulesPath(config),
                                                 u2.componenet.scope = Null,
                                                 u2.componenet.scope))]
          IN Outcome(Ok, u3)

-----------------------------------------------------------------------------
(* fixAnalysisComponentPath of src/src/lib/tasks/analyze.ts, 239-259, with *)
(* basename and extname of the path module (POSIX).  analyze.ts spells the *)
(* group `component`; it is the group the resolver writes as `componenet`. *)

Dot == "."
\* analyze.ts 33.
tempSubpath == <<"a", "n", "a", "l", "y", "z", "e">>
\* The default of config.temp.path.
TempPath == <<Dot, "t", "m", "p">>
\* The literal of analyze.ts 255.
NodeModulesLiteral ==
  <<"n", "o", "d", "e", "_", "m", "o", "d", "u", "l", "e", "s">>

\* s.indexOf(prefix) === 0
StartsWith(s, prefix) ==
  Len(prefix) <= Len(s) /\ SubSeq(s, 1, Len(prefix)) = prefix

EndsWith(s, suffix) ==
  Len(suffix) <= Len(s) /\ SubSeq(s, Len(s) - Len(suffix) + 1, Len(s)) = suffix

\* The last portion of a path (trailing slashes do not count).
RECURSIVE WithoutTrailingSlashes(_)
WithoutTrailingSlashes(p) ==
  IF Len(p) > 0 /\ p[Len(p)] = Slash
  THEN WithoutTrailingSlashes(SubSeq(p, 1, Len(p) - 1)) ELSE p
LastPortion(p) ==
  LET q == WithoutTrailingSlashes(p)
  IN Substring(q, LastIndexOf(q, Slash) + 1, Len(q))

\* path.extname: from the last '.' of the last portion to its end; empty
\* when there is no '.', when the only '.' is its first character, and for
\* '..'.
getFileExtension(p) ==
  LET b == LastPortion(p)
      i == LastIndexOf(b, Dot)
  IN IF i <= 0 \/ b = <<Dot, Dot>> THEN <<>> ELSE Substring(b, i, Len(b))

\* path.basename(p, ext): the last portion, without ext when it ends in it.
getFileBasename(p, ext) ==
  LET b == LastPortion(p)
  IN IF ext # <<>> /\ Len(ext) < Len(b) /\ EndsWith(b, ext)
     THEN SubSeq(b, 1, Len(b) - Len(ext)) ELSE b

\* analyze.ts 248-251.
NodeScope(config) ==
  IF config.componenet.scope = Undef THEN <<>>
  ELSE <<Slash>> \o ToTemplate(config.componenet.scope)

\* analyze.ts 239-259.
fixAnalysisComponentPath(componentPath, config) ==
  LET pathBase == getFileBasename(componentPath, getFileExtension(componentPath))
  IN IF StartsWith(componentPath, TempPath \o <<Slash>> \o tempSubpath \o <<Slash>>)
     THEN NodeModulesLiteral \o NodeScope(config) \o <<Slash>> \o pathBase
            \o <<Slash>> \o pathBase \o ToTemplate(config.build.module.extension)
     ELSE componentPath

-----------------------------------------------------------------------------
(* The lint task of src/src/tasks/lint.js, 17-143, and waitForAllPromises  *)
(* of src/tasks/util.js, 71-90.                                            *)

SubTasks == {"lintJS", "lintJSinHTML", "lintSASS"}

Pending == "pending"
Resolved == "resolved"
Rejected == "rejected"

\* tasksUtil.tasks.log.starting / successful / failed.
LogStarting == "starting"
LogSuccessful == "successful"
LogFailed == "failed"

NotStarted ==
  [pc |-> "not started", promise |-> Pending, log |-> <<>>, uncaught |-> FALSE]

\* lint.js 20-34, 42-45: the executor logs 'starting' and builds the stream;
\* an exception while building it is caught, the promise is rejected and
\* 'failed' is logged.
Started(threw) ==
  IF threw
  THEN [pc |-> "threw", promise |-> Rejected,
        log |-> <<LogStarting, LogFailed>>, uncaught |-> FALSE]
  ELSE [pc |-> "streaming", promise |-> Pending,
        log |-> <<LogStarting>>, uncaught |-> FALSE]

\* lint.js 35-38: the 'finish' handler.
OnFinish(sub) ==
  [sub EXCEPT !.pc = "finished", !.promise = Resolved,
              !.log = Append(@, LogSuccessful)]

\* lint.js 39-41: the 'error' handler throws the error; the executor and
\* its try block have returned by then, so nothing catches it.
OnError(sub) == [sub EXCEPT !.pc = "errored", !.uncaught = TRUE]

\* The result of one mapped promise of util.js 74-81.
Waiting == "waiting"
Status0 == "status 0"
Status1 == "status 1"

NoPromises ==
  [ mapped |-> [k \in SubTasks |-> Waiting], all |-> Pending,
    waitForAll |-> Pending, lint |-> Pending ]

\* util.js 74-81: the mapped promise of a settled promise.
Mapped(promise) == IF promise = Resolved THEN Status0 ELSE Status1

\* A slip: the given promises go to Promise.all as they are, and one
\* rejection ends the wait.
PromiseAllFulfilsFailFast(mapped) ==
  \/ \A k \in SubTasks : mapped[k] # Waiting
  \/ \E k \in SubTasks : mapped[k] = Status1

\* util.js 73, 82: Promise.all over the mapped promises, none of which
\* rejects, is fulfilled when the last of them is.
PromiseAllFulfils(mapped) == \A k \in SubTasks : mapped[k] # Waiting

\* util.js 84-88.
WaitForAllOutcome(mapped) ==
  IF {k \in SubTasks : mapped[k] = Status1} = {} THEN Resolved ELSE Rejected

-----------------------------------------------------------------------------
(* Inputs: the manifest on disk and the caller's overrides. *)

Alphabet == {Slash, "a"}

Widget == <<"w", "i", "d", "g", "e", "t">>
ScopedWidget == <<"@", "s", "c", "o", "p", "e", Slash>> \o Widget
Constructor == <<"c", "o", "n", "s", "t", "r", "u", "c", "t", "o", "r">>

Names ==
  UNION {[1..n -> Alphabet] : n \in 0..MaxNameLen}
    \cup {Widget, ScopedWidget, Constructor}

\* A manifest without a name, with a number for a name, with a string name.
Manifests ==
  {[name |-> Undef], [name |-> Num42]} \cup {[name |-> Str(n)] : n \in Names}

RootOverrides == {Undef, Str(<<"m">>)}
ScopeOverrides == {Undef, Null, Str(<<"x">>)}
ComponentPathOverrides == {Undef, Str(<<"p">>)}
CreateOverrides == {Undef, Bool(TRUE), Bool(FALSE)}
ModuleExtensionOverrides == {Undef, Str(ExtJs)}
ScriptExtensionOverrides == {Undef, Str(ExtJs), Str(ExtMjs)}
PackageNameOverrides == {Undef, Str(<<"o">>)}

Overrides ==
  { MkConfig(r, s, c, mc, me, sc, se, pn, Undef) :
      r \in RootOverrides, s \in ScopeOverrides, c \in ComponentPathOverrides,
      mc \in CreateOverrides, me \in ModuleExtensionOverrides,
      sc \in CreateOverrides, se \in ScriptExtensionOverrides,
      pn \in PackageNameOverrides }

NoOptions == [given |-> FALSE, value |-> EmptyConfig]
Given(config) == [given |-> TRUE, value |-> config]

-----------------------------------------------------------------------------
(* State.                                                                  *)
(*   version     which generation of the entry module is loaded            *)
(*   userConfig  the module-level configuration object of the setConfig    *)
(*               generations (index.ts 242, lint.js 151)                   *)
(*   calls       the resolver invocations: where each stands (pc), its     *)
(*               arguments, the manifest it read, how it ended, the value  *)
(*               it returned, and whether another invocation was suspended *)
(*               at its manifest read at the same time (overlapped)        *)
(*   resolution  how far the resolution of the configuration the tasks     *)
(*               read has come                                             *)
(*   ranTask     the task body invoked last, and what `resolution` was     *)
(*   analysis    the component path the analyze task rewrote last: the     *)
(*               path, the configuration it was given, the path it made    *)
(*   subTasks    the three sub-tasks of the lint task: where each stands,  *)
(*               its promise, what it logged, whether its 'error' handler  *)
(*               threw                                                     *)
(*   promises    waitForAllPromises over the three and the lint task: the  *)
(*               result of each mapped promise, Promise.all, the promise   *)
(*               waitForAllPromises returned, the promise lint returned    *)

Versions == {"getConfig", "setConfigTS", "setConfigJS"}
CallIds == {1, 2}

Idle ==
  [pc |-> "idle", options |-> NoOptions, manifest |-> [name |-> Undef],
   outcome |-> "none", result |-> EmptyConfig, overlapped |-> FALSE]
Called(options, manifest) ==
  [pc |-> "called", options |-> options, manifest |-> manifest,
   outcome |-> "none", result |-> EmptyConfig, overlapped |-> FALSE]
Reading(options) ==
  [pc |-> "reading", options |-> options, manifest |-> [name |-> Undef],
   outcome |-> "none", result |-> EmptyConfig, overlapped |-> FALSE]
Done(call, manifest, out) ==
  [call EXCEPT !.pc = "done", !.manifest = manifest, !.outcome = out.outcome,
               !.result = IF out.outcome = Ok THEN out.config ELSE EmptyConfig]

NoTask == [name |-> "none", resolution |-> "never"]
NoAnalysis == [path |-> <<>>, config |-> EmptyConfig, fixed |-> <<>>]

\* One call on a freshly loaded module: the arguments and the manifest are
\* drawn here, the call itself is the step.
Init ==
  /\ version \in Versions
  /\ userConfig = InitialUserConfig
  /\ \E m \in Manifests :
       \E o \in {Given(c) : c \in Overrides}
                  \cup (IF version = "getConfig" THEN {NoOptions} ELSE {}) :
         calls = [i \in CallIds |-> IF i = 1 THEN Called(o, m) ELSE Idle]
  /\ resolution = "never"
  /\ ranTask = NoTask
  /\ analysis = NoAnalysis
  /\ subTasks = [k \in SubTasks |-> NotStarted]
  /\ promises = NoPromises

\* getConfig run from call to return.
GetConfig(i) ==
  /\ version = "getConfig"
  /\ calls[i].pc = "called"
  /\ calls' = [calls EXCEPT ![i] =
       Done(@, @.manifest, getConfig(@.options, @.manifest))]
  /\ UNCHANGED <<subTasks, promises, analysis, version, userConfig, resolution, ranTask>>

\* setConfig of index.ts run from call to return, no other call in between.
SetConfigTS(i) ==
  /\ version = "setConfigTS"
  /\ calls[i].pc = "called"
  /\ LET out == setConfig(userConfig, calls[i].options.value, calls[i].manifest)
     IN /\ userConfig' = out.config
        /\ calls' = [calls EXCEPT ![i] = Done(@, @.manifest, out)]
        /\ resolution' = IF out.outcome = Ok THEN "valid" ELSE "failed"
  /\ UNCHANGED <<subTasks, promises, analysis, version, ranTask>>

\* setConfig of lint.js: synchronous.
SetConfigJS(i) ==
  /\ version = "setConfigJS"
  /\ calls[i].pc = "called"
  /\ LET out == setConfigJS(userConfig, calls[i].options.value, calls[i].manifest)
     IN /\ userConfig' = out.config
        /\ calls' = [calls EXCEPT ![i] = Done(@, @.manifest, out)]
        /\ resolution' = IF out.outcome = Ok THEN "valid" ELSE "failed"
  /\ UNCHANGED <<subTasks, promises, analysis, version, ranTask>>

Next ==
  \/ \E i \in CallIds : GetConfig(i)
  \/ \E i \in CallIds : SetConfigTS(i)
  \/ \E i \in CallIds : SetConfigJS(i)

Spec == Init /\ [][Next]_vars

-----------------------------------------------------------------------------
(* The entry module in use: resolver calls that suspend at the manifest    *)
(* read and interleave there, and the task functions.                      *)

ConcManifests ==
  { [name |-> Undef], [name |-> Str(<<"a">>)],
    [name |-> Str(<<"a", Slash, "a">>)] }

ConcOverrides ==
  { EmptyConfig,
    MkConfig(Str(<<"m">>), Undef, Undef, Undef, Undef, Undef, Undef, Undef, Undef),
    MkConfig(Undef, Undef, Undef, Bool(FALSE), Undef, Bool(FALSE), Undef, Undef,
             Undef) }

\* The task tables: index.ts 100-217, index.ts 313-338, lint.js 216-238
\* ('fix-dependencies' of lint.js takes no configuration and is left out).
TasksOf(v) ==
  CASE v = "getConfig" ->
         {"analyze", "build", "buildDocs", "clean", "fixDependencies", "lint",
          "publish", "publishDry", "test"}
    [] v = "setConfigTS" ->
         {"analyze", "build", "build-docs", "clean", "fix-dependencies", "lint",
          "publish", "test"}
    [] v = "setConfigJS" ->
         {"analyze", "build", "build-docs", "clean", "lint", "test"}

OtherReading(i) == \E j \in CallIds \ {i} : calls[j].pc = "reading"

\* Every invocation suspended right now has met another one.
MarkOverlap(cs) ==
  [j \in CallIds |->
     IF cs[j].pc = "reading" /\ (\E k \in CallIds \ {j} : cs[k].pc = "reading")
     THEN [cs[j] EXCEPT !.overlapped = TRUE] ELSE cs[j]]

ConcInit ==
  /\ version \in Versions
  /\ userConfig = InitialUserConfig
  /\ calls = [i \in CallIds |-> Idle]
  /\ resolution = "never"
  /\ ranTask = NoTask
  /\ analysis = NoAnalysis
  /\ subTasks = [k \in SubTasks |-> NotStarted]
  /\ promises = NoPromises

\* index.ts 28-34: getConfig is called and suspends at readFile; nothing is
\* computed before.
GetConfigCall(i, options) ==
  /\ version = "getConfig"
  /\ calls[i].pc = "idle"
  /\ calls' = MarkOverlap([calls EXCEPT ![i] = Reading(options)])
  /\ UNCHANGED <<subTasks, promises, analysis, version, userConfig, resolution, ranTask>>

\* index.ts 32-97: the manifest is read and getConfig runs to its end.
GetConfigResume(i, manifest) ==
  /\ version = "getConfig"
  /\ calls[i].pc = "reading"
  /\ calls' = [calls EXCEPT ![i] =
       Done(@, manifest, getConfig(@.options, manifest))]
  /\ UNCHANGED <<subTasks, promises, analysis, version, userConfig, resolution, ranTask>>

\* index.ts 252-270: setConfig is called, merges into userConfig and
\* suspends at readFilePromise.
SetConfigCall(i, config) ==
  /\ version = "setConfigTS"
  /\ calls[i].pc = "idle"
  /\ userConfig' = SetConfigMerge(userConfig, config)
  /\ calls' = MarkOverlap([calls EXCEPT ![i] = Reading(Given(config))])
  /\ resolution' = "in progress"
  /\ UNCHANGED <<subTasks, promises, analysis, version, ranTask>>

\* index.ts 269-310: the manifest is read and setConfig runs to its end.
SetConfigResume(i, manifest) ==
  /\ version = "setConfigTS"
  /\ calls[i].pc = "reading"
  /\ LET out == SetConfigFinish(userConfig, manifest)
     IN /\ userConfig' = out.config
        /\ calls' = [calls EXCEPT ![i] = Done(@, manifest, out)]
        /\ resolution' = IF OtherReading(i) THEN "in progress"
                         ELSE IF out.outcome = Ok THEN "valid" ELSE "failed"
  /\ UNCHANGED <<subTasks, promises, analysis, version, ranTask>>

\* lint.js 160-202: setConfig runs from call to return.
SetConfigJSCall(i, config, manifest) ==
  /\ version = "setConfigJS"
  /\ calls[i].pc = "idle"
  /\ LET out == setConfigJS(userConfig, config, manifest)
     IN /\ userConfig' = out.config
        /\ calls' = [calls EXCEPT ![i] = Done(Reading(Given(config)), manifest, out)]
        /\ resolution' = IF out.outcome = Ok THEN "valid" ELSE "failed"
  /\ UNCHANGED <<subTasks, promises, analysis, version, ranTask>>

\* The caller drops the promise of a finished call; the slot serves the
\* next call.
Forget(i) ==
  /\ calls[i].pc = "done"
  /\ calls' = [calls EXCEPT ![i] = Idle]
  /\ UNCHANGED <<subTasks, promises, analysis, version, userConfig, resolution, ranTask>>

\* index.ts 104-216: a task function awaits the configuration (its own
\* getConfig() or the promise it was given) and calls the task body with the
\* value; a rejected promise ends the task function before the body.
TaskBodyAwaited(t, i) ==
  /\ version = "getConfig"
  /\ t \in TasksOf(version)
  /\ calls[i].pc = "done"
  /\ calls[i].outcome = Ok
  /\ ranTask' = [name |-> t, resolution |-> "valid"]
  /\ UNCHANGED <<subTasks, promises, analysis, version, userConfig, calls, resolution>>

\* index.ts 313-338, lint.js 216-238: a task function calls the task body
\* with userConfig, as it is.
TaskBodyUserConfig(t) ==
  /\ version \in {"setConfigTS", "setConfigJS"}
  /\ t \in TasksOf(version)
  /\ ranTask' = [name |-> t, resolution |-> resolution]
  /\ UNCHANGED <<subTasks, promises, analysis, version, userConfig, calls, resolution>>

AllTasks == UNION {TasksOf(v) : v \in Versions}

ConcNext ==
  \/ \E i \in CallIds, c \in ConcOverrides : GetConfigCall(i, Given(c))
  \/ \E i \in CallIds : GetConfigCall(i, NoOptions)
  \/ \E i \in CallIds, m \in ConcManifests : GetConfigResume(i, m)
  \/ \E i \in CallIds, c \in ConcOverrides : SetConfigCall(i, c)
  \/ \E i \in CallIds, m \in ConcManifests : SetConfigResume(i, m)
  \/ \E i \in CallIds, c \in ConcOverrides, m \in ConcManifests :
       SetConfigJSCall(i, c, m)
  \/ \E i \in CallIds : Forget(i)
  \/ \E t \in AllTasks, i \in CallIds : TaskBodyAwaited(t, i)
  \/ \E t \in AllTasks : TaskBodyUserConfig(t)

SpecConc == ConcInit /\ [][ConcNext]_vars

-----------------------------------------------------------------------------
(* Calls made one after the other on the same loaded module: calls[2] is   *)
(* the call made last, calls[1] the one before it.                         *)

SeqManifests ==
  { [name |-> Undef], [name |-> Str(<<"a">>)],
    [name |-> Str(<<"a", Slash, "a">>)] }

\* Nothing; a top-level key the defaults lack; another root path; both
\* targets off.
SeqOverrides ==
  { EmptyConfig,
    MkConfig(Undef, Undef, Undef, Undef, Undef, Undef, Undef, Undef,
             Str(<<"e">>)),
    MkConfig(Str(<<"m">>), Undef, Undef, Undef, Undef, Undef, Undef, Undef, Undef),
    MkConfig(Undef, Undef, Undef, Bool(FALSE), Undef, Bool(FALSE), Undef, Undef,
             Undef) }

\* The caller makes the next call, once the last one has ended.
Invoke(options, manifest) ==
  /\ calls[2].pc \in {"idle", "done"}
  /\ options.given \/ version = "getConfig"
  /\ calls' = [i \in CallIds |-> IF i = 1 THEN calls[2]
                                 ELSE Called(options, manifest)]
  /\ UNCHANGED <<subTasks, promises, analysis, version, userConfig, resolution, ranTask>>

\* Component paths of an analysis: under the temp path of the analyze task
\* (plain, nested and with two dots, without extension), outside it, and
\* with the temp path not at the start.
AnalyzeDir == TempPath \o <<Slash>> \o tempSubpath \o <<Slash>>
AnalysisPaths ==
  { AnalyzeDir \o <<"a", Dot, "j", "s">>,
    AnalyzeDir \o <<"d", Slash, "a", Dot, "b", Dot, "j", "s">>,
    AnalyzeDir \o <<"a">>,
    <<"s", "r", "c", Slash, "a", Dot, "j", "s">>,
    <<"x", Slash>> \o AnalyzeDir \o <<"a", Dot, "j", "s">> }

\* analyze.ts 40-46, 73, 116-234: the analyze task, given the configuration
\* a getConfig call returned, rewrites a component path of the analysis.
FixAnalysisComponentPath(i, componentPath) ==
  /\ version = "getConfig"
  /\ calls[i].pc = "done"
  /\ calls[i].outcome = Ok
  /\ analysis' = [path |-> componentPath, config |-> calls[i].result,
                  fixed |-> fixAnalysisComponentPath(componentPath, calls[i].result)]
  /\ UNCHANGED <<subTasks, promises, version, userConfig, calls, resolution, ranTask>>

SeqNext ==
  \/ \E p \in AnalysisPaths : FixAnalysisComponentPath(2, p)
  \/ \E c \in SeqOverrides, m \in SeqManifests : Invoke(Given(c), m)
  \/ \E m \in SeqManifests : Invoke(NoOptions, m)
  \/ GetConfig(2)
  \/ SetConfigTS(2)
  \/ SetConfigJS(2)

SpecSeq == ConcInit /\ [][SeqNext]_vars

-----------------------------------------------------------------------------
(* One run of the lint task. *)

LintInit ==
  /\ version = "setConfigJS"
  /\ userConfig = InitialUserConfig
  /\ calls = [i \in CallIds |-> Idle]
  /\ resolution = "never"
  /\ ranTask = NoTask
  /\ analysis = NoAnalysis
  /\ subTasks = [k \in SubTasks |-> NotStarted]
  /\ promises = NoPromises

NoLintChange == UNCHANGED <<version, userConfig, calls, resolution, analysis>>

\* lint.js 129-136: the task is called; the three sub-tasks are started one
\* after the other, in the same turn, and waitForAllPromises gets their
\* promises.  `threw` are the sub-tasks whose stream could not be built.
LintCall(threw) ==
  /\ \A k \in SubTasks : subTasks[k].pc = "not started"
  /\ subTasks' = [k \in SubTasks |-> Started(k \in threw)]
  /\ ranTask' = [name |-> "lint", resolution |-> resolution]
  /\ UNCHANGED promises
  /\ NoLintChange

\* The stream of a sub-task emits 'finish'.
StreamFinish(k) ==
  /\ subTasks[k].pc = "streaming"
  /\ subTasks' = [subTasks EXCEPT ![k] = OnFinish(@)]
  /\ UNCHANGED <<promises, ranTask>>
  /\ NoLintChange

\* The stream of a sub-task emits 'error'.
StreamError(k) ==
  /\ subTasks[k].pc = "streaming"
  /\ subTasks' = [subTasks EXCEPT ![k] = OnError(@)]
  /\ UNCHANGED <<promises, ranTask>>
  /\ NoLintChange

\* util.js 75-80: a mapped promise resumes once its promise has settled.
MappedSettles(k) ==
  /\ subTasks[k].promise # Pending
  /\ promises.mapped[k] = Waiting
  /\ promises' = [promises EXCEPT !.mapped[k] = Mapped(subTasks[k].promise)]
  /\ UNCHANGED <<subTasks, ranTask>>
  /\ NoLintChange

\* util.js 73: Promise.all is fulfilled.
PromiseAllSettles ==
  /\ promises.all = Pending
  /\ PromiseAllFulfils(promises.mapped)
  /\ promises' = [promises EXCEPT !.all = Resolved]
  /\ UNCHANGED <<subTasks, ranTask>>
  /\ NoLintChange

\* util.js 84-88: waitForAllPromises resumes and settles its promise.
WaitForAllSettles ==
  /\ promises.all = Resolved
  /\ promises.waitForAll = Pending
  /\ promises' = [promises EXCEPT !.waitForAll = WaitForAllOutcome(promises.mapped)]
  /\ UNCHANGED <<subTasks, ranTask>>
  /\ NoLintChange

\* lint.js 132-141: the lint task resumes and settles its promise alike.
LintSettles ==
  /\ promises.waitForAll # Pending
  /\ promises.lint = Pending
  /\ promises' = [promises EXCEPT !.lint = promises.waitForAll]
  /\ UNCHANGED <<subTasks, ranTask>>
  /\ NoLintChange

LintNext ==
  \/ \E threw \in SUBSET SubTasks : LintCall(threw)
  \/ \E k \in SubTasks : StreamFinish(k)
  \/ \E k \in SubTasks : StreamError(k)
  \/ \E k \in SubTasks : MappedSettles(k)
  \/ PromiseAllSettles
  \/ WaitForAllSettles
  \/ LintSettles

SpecLint == LintInit /\ [][LintNext]_vars

-----------------------------------------------------------------------------
(* Vocabulary of the properties, written without the operators of the      *)
(* resolvers.                                                              *)

Finished(i) == calls[i].pc = "done"
Succeeded(i) == Finished(i) /\ calls[i].outcome = Ok
OverridesOf(i) == calls[i].options.value
ManifestName(i) == calls[i].manifest.name
HasStringName(i) == ManifestName(i).t = "string"

HasSlash(n) == \E k \in 1..Len(n) : n[k] = Slash

\* The part of n before its last '/', for an n that has one.
BeforeLastSlash(n) ==
  LET k == CHOOSE k \in 1..Len(n) :
             n[k] = Slash /\ \A j \in (k + 1)..Len(n) : n[j] # Slash
  IN SubSeq(n, 1, k - 1)

\* The root install path the caller asked for, else the default.
EffectiveRoot(i) ==
  IF OverridesOf(i).nodeModulesPath # Undef
  THEN OverridesOf(i).nodeModulesPath.v ELSE NodeModules

NoComponentOverride(i) ==
  /\ OverridesOf(i).componenet.scope = Undef
  /\ OverridesOf(i).componenet.nodeModulesPath = Undef

\* The create flags and the extensions of defaults merged with overrides.
Chosen(o, d) == IF o # Undef THEN o ELSE d
MergedModuleCreate(i) ==
  Chosen(OverridesOf(i).build.module.create, defaultConfig.build.module.create)
MergedScriptCreate(i) ==
  Chosen(OverridesOf(i).build.script.create, defaultConfig.build.script.create)
MergedModuleExtension(i) ==
  Chosen(OverridesOf(i).build.module.extension, defaultConfig.build.module.extension)
MergedScriptExtension(i) ==
  Chosen(OverridesOf(i).build.script.extension, defaultConfig.build.script.extension)
BothTargetsOff(i) ==
  MergedModuleCreate(i) = Bool(FALSE) /\ MergedScriptCreate(i) = Bool(FALSE)
SameExtension(i) == MergedModuleExtension(i) = MergedScriptExtension(i)

Validating == {"getConfig", "setConfigTS"}

-----------------------------------------------------------------------------
\* C1: with a string name in the manifest, a merged configuration whose two
\* create flags are false makes getConfig / setConfig fail with the "no
\* build target enabled" error, whatever the other fields are.
C1_BothTargetsOffFailsNoTarget ==
  \A i \in CallIds :
    (version \in Validating /\ Finished(i) /\ HasStringName(i) /\ BothTargetsOff(i))
      => calls[i].outcome = ErrNoTarget

\* The same, for the names that are not property names of Object.prototype.
C1_HoldsForOrdinaryNames ==
  \A i \in CallIds :
    (version \in Validating /\ Finished(i) /\ HasStringName(i) /\ BothTargetsOff(i)
       /\ ManifestName(i).v \notin ObjectPrototypeKeys)
      => calls[i].outcome = ErrNoTarget

\* C2 (as stated): with a string name in the manifest, equal extensions in
\* the merged configuration always make resolving fail with the "extension
\* collision" error.
C2_SameExtensionFailsCollision ==
  \A i \in CallIds :
    (version \in Validating /\ Finished(i) /\ HasStringName(i) /\ SameExtension(i))
      => calls[i].outcome = ErrExtension

\* C2 (amended): with a string name in the manifest and equal extensions in
\* the merged configuration, resolving never returns a configuration; the
\* error is "extension collision" when at least one create flag is on and
\* the name was accepted, and "no build target enabled" when both are off
\* and the name was accepted.
C2_SameExtensionNeverResolves ==
  \A i \in CallIds :
    (version \in Validating /\ Finished(i) /\ HasStringName(i) /\ SameExtension(i))
      => /\ calls[i].outcome \in {ErrExtension, ErrNoTarget, ErrName}
         /\ calls[i].outcome # ErrName =>
              (calls[i].outcome = ErrExtension <=> ~BothTargetsOff(i))

\* C2 witness: a collision reported with one target switched off.
C2_Witness ==
  \E i \in CallIds :
    /\ Finished(i) /\ HasStringName(i) /\ SameExtension(i)
    /\ MergedModuleCreate(i) = Bool(FALSE)
    /\ calls[i].outcome = ErrExtension

\* C3: a manifest without a string name makes resolving fail with the
\* "manifest missing name" error, before anything is merged, and no
\* configuration is returned.
C3_NoStringNameFailsMissingName ==
  \A i \in CallIds :
    (Finished(i) /\ ~HasStringName(i))
      => /\ calls[i].outcome = ErrName
         /\ calls[i].result = EmptyConfig
         /\ userConfig = InitialUserConfig

\* C3 on getConfig alone.
C3_HoldsForGetConfig ==
  \A i \in CallIds :
    (version = "getConfig" /\ Finished(i) /\ ~HasStringName(i))
      => /\ calls[i].outcome = ErrName
         /\ calls[i].result = EmptyConfig
         /\ userConfig = InitialUserConfig

\* C4 (as stated): for a name that contains '/', and no override of the
\* component group, the scope is the part of the name before its last '/'
\* and the component path is the effective root path, '/', and that scope.
C4_ScopedName ==
  \A i \in CallIds :
    (version \in Validating /\ Succeeded(i) /\ NoComponentOverride(i)
       /\ HasSlash(ManifestName(i).v))
      => LET scope == BeforeLastSlash(ManifestName(i).v)
         IN /\ calls[i].result.componenet.scope = Str(scope)
            /\ calls[i].result.componenet.nodeModulesPath =
                 Str(EffectiveRoot(i) \o <<Slash>> \o scope)

\* C4 (amended): the same for a name whose part before the last '/' is not
\* empty.
C4_ScopedNameNonEmptyScope ==
  \A i \in CallIds :
    (version \in Validating /\ Succeeded(i) /\ NoComponentOverride(i)
       /\ HasSlash(ManifestName(i).v)
       /\ BeforeLastSlash(ManifestName(i).v) # <<>>)
      => LET scope == BeforeLastSlash(ManifestName(i).v)
         IN /\ calls[i].result.componenet.scope = Str(scope)
            /\ calls[i].result.componenet.nodeModulesPath =
                 Str(EffectiveRoot(i) \o <<Slash>> \o scope)

\* C4 witness: a name with two slashes resolved under an overridden root.
C4_Witness ==
  \E i \in CallIds :
    /\ Succeeded(i) /\ NoComponentOverride(i)
    /\ ManifestName(i) = Str(<<"a", Slash, Slash>>)
    /\ OverridesOf(i).nodeModulesPath # Undef
    /\ calls[i].result.componenet.scope = Str(<<"a", Slash>>)

\* C5: for a name without '/', and no override of the component group, the
\* scope is absent (not the empty string) and the component path is the
\* effective root path itself.
C5_UnscopedName ==
  \A i \in CallIds :
    (Succeeded(i) /\ NoComponentOverride(i) /\ ~HasSlash(ManifestName(i).v))
      => /\ IsNullish(calls[i].result.componenet.scope)
         /\ calls[i].result.componenet.nodeModulesPath = Str(EffectiveRoot(i))

\* C5 witness: "widget" resolved.
C5_Witness ==
  \E i \in CallIds :
    /\ Succeeded(i) /\ NoComponentOverride(i)
    /\ ManifestName(i) = Str(Widget)
    /\ calls[i].result.componenet.nodeModulesPath = Str(NodeModules)

\* C6 (as stated): the manifest { "name": "@scope/widget" } without
\* overrides resolves to scope "scope" and component path
\* "node_modules/scope".
C6_ScopedWidgetWithoutAt ==
  \A i \in CallIds :
    (version = "getConfig" /\ Finished(i) /\ ManifestName(i) = Str(ScopedWidget)
       /\ OverridesOf(i) = EmptyConfig)
      => /\ calls[i].outcome = Ok
         /\ calls[i].result.componenet.scope = Str(<<"s", "c", "o", "p", "e">>)
         /\ calls[i].result.componenet.nodeModulesPath =
              Str(NodeModules \o <<Slash, "s", "c", "o", "p", "e">>)

\* C6 (amended): the manifest { "name": "@scope/widget" } without overrides
\* resolves to scope "@scope" and component path "node_modules/@scope".
C6_ScopedWidgetKeepsAt ==
  \A i \in CallIds :
    (version = "getConfig" /\ Finished(i) /\ ManifestName(i) = Str(ScopedWidget)
       /\ OverridesOf(i) = EmptyConfig)
      => /\ calls[i].outcome = Ok
         /\ calls[i].result.componenet.scope =
              Str(<<"@", "s", "c", "o", "p", "e">>)
         /\ calls[i].result.componenet.nodeModulesPath =
              Str(NodeModules \o <<Slash, "@", "s", "c", "o", "p", "e">>)

\* C6 witness: getConfig() returned for "@scope/widget".
C6_Witness ==
  \E i \in CallIds :
    /\ version = "getConfig" /\ Succeeded(i)
    /\ ManifestName(i) = Str(ScopedWidget)
    /\ ~calls[i].options.given

\* What C7 expects of a resolved configuration: the override where there is
\* one, else the value derived from the manifest, else the default.
DerivedScope(i) ==
  IF HasSlash(ManifestName(i).v) /\ BeforeLastSlash(ManifestName(i).v) # <<>>
  THEN Str(BeforeLastSlash(ManifestName(i).v)) ELSE Null
DerivedComponentPath(i) ==
  Str(EffectiveRoot(i) \o
        (IF DerivedScope(i) = Null THEN <<>> ELSE <<Slash>> \o DerivedScope(i).v))
Layered(i) ==
  MkConfig(Str(EffectiveRoot(i)),
           Chosen(OverridesOf(i).componenet.scope, DerivedScope(i)),
           Chosen(OverridesOf(i).componenet.nodeModulesPath, DerivedComponentPath(i)),
           MergedModuleCreate(i), MergedModuleExtension(i),
           MergedScriptCreate(i), MergedScriptExtension(i),
           Chosen(OverridesOf(i).package.name, ManifestName(i)),
           OverridesOf(i).extra)

\* C7: in every resolved configuration a field the overrides set has the
\* override's value, and any other field has the manifest-derived value if
\* there is one, else the default.
C7_OverridesDominate ==
  \A i \in CallIds : Succeeded(i) => calls[i].result = Layered(i)

\* C7 on getConfig alone.
C7_HoldsForGetConfig ==
  \A i \in CallIds :
    (version = "getConfig" /\ Succeeded(i)) => calls[i].result = Layered(i)

\* C8 (as stated): every resolved configuration has
\* component.nodeModulesPath = nodeModulesPath [+ '/' + scope], whatever the
\* overrides.
ComponentPathMatchesScope(c) ==
  c.componenet.nodeModulesPath =
    Str(ToTemplate(c.nodeModulesPath) \o
          (IF IsNullish(c.componenet.scope) THEN <<>>
           ELSE <<Slash>> \o ToTemplate(c.componenet.scope)))
C8_ComponentPathDerived ==
  \A i \in CallIds :
    (version \in Validating /\ Succeeded(i))
      => ComponentPathMatchesScope(calls[i].result)

\* C8 (amended): every configuration resolved from overrides that set
\* neither component.scope nor component.nodeModulesPath has
\* component.nodeModulesPath = nodeModulesPath [+ '/' + scope]; the root
\* nodeModulesPath may be overridden.
C8_ComponentPathDerivedUnlessOverridden ==
  \A i \in CallIds :
    (version \in Validating /\ Succeeded(i) /\ NoComponentOverride(i))
      => ComponentPathMatchesScope(calls[i].result)

\* C8 witness: a scoped name resolved under an overridden root.
C8_Witness ==
  \E i \in CallIds :
    /\ version = "getConfig" /\ Succeeded(i) /\ NoComponentOverride(i)
    /\ OverridesOf(i).nodeModulesPath = Str(<<"m">>)
    /\ calls[i].result.componenet.nodeModulesPath = Str(<<"m", Slash, "a">>)

-----------------------------------------------------------------------------
\* C9: a task body is only ever invoked with a configuration whose
\* resolution was performed, has ended, and has passed validation.
C9_TasksSeeValidatedConfig ==
  ranTask.name # "none" => ranTask.resolution = "valid"

\* C9 on the getConfig generation alone.
C9_HoldsForGetConfig ==
  (version = "getConfig" /\ ranTask.name # "none") => ranTask.resolution = "valid"

\* What invocation i returns when it is the only call on a freshly loaded
\* module.
Alone(i) ==
  IF version = "getConfig"
  THEN getConfig(calls[i].options, calls[i].manifest)
  ELSE setConfig(InitialUserConfig, calls[i].options.value, calls[i].manifest)

\* What the caller of invocation i holds: getConfig returns an object of its
\* own, setConfig returns userConfig itself.
Held(i) == IF version = "getConfig" THEN calls[i].result ELSE userConfig

\* C10: of two invocations that overlapped, each ends as its own options and
\* its own manifest determine, and the configuration it returned stays what
\* they determine.
C10_OverlappingCallsIndependent ==
  \A i \in CallIds :
    (version \in Validating /\ Finished(i) /\ calls[i].overlapped)
      => /\ calls[i].outcome = Alone(i).outcome
         /\ calls[i].outcome = Ok =>
              (calls[i].result = Alone(i).config /\ Held(i) = Alone(i).config)

\* C10 on the getConfig generation alone.
C10_HoldsForGetConfig ==
  \A i \in CallIds :
    (version = "getConfig" /\ Finished(i) /\ calls[i].overlapped)
      => /\ calls[i].outcome = Alone(i).outcome
         /\ calls[i].outcome = Ok =>
              (calls[i].result = Alone(i).config /\ Held(i) = Alone(i).config)

-----------------------------------------------------------------------------
\* C11: two calls in sequence with the same overrides and the same manifest
\* end alike, with the same error or with equal configurations; and where
\* the resolver keeps nothing between calls (getConfig, setConfig of
\* index.ts) the second ends as it would on a freshly loaded module.
SameInputs ==
  /\ Finished(1) /\ Finished(2)
  /\ calls[1].options = calls[2].options
  /\ calls[1].manifest = calls[2].manifest
C11_ResolvingTwiceAgrees ==
  SameInputs =>
    /\ calls[2].outcome = calls[1].outcome
    /\ calls[2].result = calls[1].result
    /\ version \in Validating =>
         /\ calls[2].outcome = Alone(2).outcome
         /\ calls[2].outcome = Ok => calls[2].result = Alone(2).config

\* C11 witness: the same scoped manifest resolved twice by setConfig.
C11_Witness ==
  /\ version = "setConfigTS"
  /\ SameInputs /\ Succeeded(2)
  /\ calls[2].result.componenet.scope = Str(<<"a">>)

\* C11 witness of the failing kind: the same error twice.
C11_WitnessSameError ==
  SameInputs /\ calls[1].outcome = ErrNoTarget /\ calls[2].outcome = ErrNoTarget

\* The top-level keys that come and go: present or not.
HasKey(v) == v # Undef

\* C13: after any sequence of setConfig calls, userConfig has the top-level
\* keys of deepMerge(defaultConfig, config) of the most recent call, and
\* package; a key only an earlier call brought is gone.
MergedOfLastCall ==
  MkConfig(Chosen(OverridesOf(2).nodeModulesPath, defaultConfig.nodeModulesPath),
           Undef, Undef, Undef, Undef, Undef, Undef, Undef,
           Chosen(OverridesOf(2).extra, defaultConfig.extra))
C13_KeysOfLastCall ==
  (version \in {"setConfigTS", "setConfigJS"} /\ Finished(2))
    => /\ HasKey(userConfig.nodeModulesPath) <=> HasKey(MergedOfLastCall.nodeModulesPath)
       /\ HasKey(userConfig.extra) <=> HasKey(MergedOfLastCall.extra)

\* C13 on setConfig of index.ts alone.
C13_HoldsForSetConfigTS ==
  (version = "setConfigTS" /\ Finished(2))
    => /\ HasKey(userConfig.nodeModulesPath) <=> HasKey(MergedOfLastCall.nodeModulesPath)
       /\ HasKey(userConfig.extra) <=> HasKey(MergedOfLastCall.extra)

-----------------------------------------------------------------------------
\* C15: with a configuration the resolver produced, a component path under
\* '<temp path>/analyze/' becomes 'node_modules/<base>/<base><module
\* extension>' when the scope is absent and
\* 'node_modules/<scope>/<base>/<base><module extension>' when there is a
\* scope; any other path is returned as it is.
Rewritten(scopePart) ==
  LET base == getFileBasename(analysis.path, getFileExtension(analysis.path))
  IN NodeModulesLiteral \o scopePart \o <<Slash>> \o base \o <<Slash>> \o base
       \o analysis.config.build.module.extension.v
C15_AnalysisPathRewritten ==
  analysis.path # <<>> =>
    IF ~StartsWith(analysis.path, AnalyzeDir)
    THEN analysis.fixed = analysis.path
    ELSE IF IsNullish(analysis.config.componenet.scope)
    THEN analysis.fixed = Rewritten(<<>>)
    ELSE analysis.fixed = Rewritten(<<Slash>> \o analysis.config.componenet.scope.v)

\* C15 for the configurations with a scope and for the paths outside the
\* temp path.
C15_HoldsWithScope ==
  (analysis.path # <<>> /\ ~IsNullish(analysis.config.componenet.scope)) =>
    IF ~StartsWith(analysis.path, AnalyzeDir)
    THEN analysis.fixed = analysis.path
    ELSE analysis.fixed = Rewritten(<<Slash>> \o analysis.config.componenet.scope.v)

-----------------------------------------------------------------------------
\* C12: the promise of waitForAllPromises stays pending while any given
\* promise is pending, also after another one was rejected; it resolves
\* when none was rejected and rejects when one was; it is settled once
\* everything has run; and the lint task settles after it, the same way.
Inputs == {subTasks[k].promise : k \in SubTasks}
C12_WaitsForAllPromises ==
  /\ promises.waitForAll # Pending => Pending \notin Inputs
  /\ promises.waitForAll = Resolved => Inputs = {Resolved}
  /\ promises.waitForAll = Rejected => Rejected \in Inputs
  /\ (Pending \notin Inputs /\ ~ENABLED LintNext)
       => (promises.waitForAll # Pending /\ promises.lint # Pending)
  /\ promises.lint # Pending => promises.lint = promises.waitForAll

\* C12 witness: the lint task rejected with one sub-task rejected and the
\* other two resolved.
C12_Witness ==
  /\ promises.lint = Rejected
  /\ subTasks["lintJS"].promise = Rejected
  /\ subTasks["lintJSinHTML"].promise = Resolved
  /\ subTasks["lintSASS"].promise = Resolved

\* C12 witness of the waiting: one promise rejected and taken note of,
\* another still pending, and the wait goes on.
C12_WitnessStillWaiting ==
  /\ promises.mapped["lintJS"] = Status1
  /\ subTasks["lintSASS"].promise = Pending
  /\ promises.waitForAll = Pending

\* C14: a sub-task whose stream emitted 'finish' has resolved and logged
\* 'starting', 'successful'; one whose stream emitted 'error' has rejected
\* and logged 'starting', 'failed'; every log begins with 'starting' and a
\* run that ended holds one of 'successful' / 'failed' after it.
Ended(sub) == sub.pc \in {"finished", "errored", "threw"}
C14_SubTaskSettlesAndLogs ==
  \A k \in SubTasks :
    /\ subTasks[k].pc = "finished" =>
         /\ subTasks[k].promise = Resolved
         /\ subTasks[k].log = <<LogStarting, LogSuccessful>>
    /\ subTasks[k].pc = "errored" =>
         /\ subTasks[k].promise = Rejected
         /\ subTasks[k].log = <<LogStarting, LogFailed>>
    /\ Ended(subTasks[k]) =>
         subTasks[k].log \in {<<LogStarting, LogSuccessful>>,
                              <<LogStarting, LogFailed>>}

\* C14 without the 'error' event.
C14_HoldsOnFinish ==
  \A k \in SubTasks :
    /\ subTasks[k].pc = "finished" =>
         /\ subTasks[k].promise = Resolved
         /\ subTasks[k].log = <<LogStarting, LogSuccessful>>
    /\ subTasks[k].pc = "threw" =>
         /\ subTasks[k].promise = Rejected
         /\ subTasks[k].log = <<LogStarting, LogFailed>>
    /\ subTasks[k].log # <<>> => subTasks[k].log[1] = LogStarting

=============================================================================
